---- MODULE Spec2Model ----
(***************************************************************************)
(* Model of "Project 4/bayes_fever.py": Monte-Carlo inference over a       *)
(* Boolean Bayesian network (forward sampling, rejection sampling and      *)
(* likelihood weighting).                                                  *)
(*                                                                         *)
(* Probabilities and weights are exact rationals <<num, den>> in lowest    *)
(* terms (den > 0).  random.random() returns a value in [0, 1), so         *)
(* "random.random() < p" can be TRUE iff p > 0 and FALSE iff p < 1; a draw *)
(* is the nondeterministic choice among the outcomes that are possible.    *)
(***************************************************************************)
EXTENDS Integers, Sequences, FiniteSets, TLC

VARIABLES
    nodes,          \* self.nodes: the sequence of BooleanVariableNode
    kind,           \* which sampler class the call runs on
    evidence_vals,  \* the evidence dictionary (variable -> bool)
    n,              \* number of samples asked of generate_samples
    pc,             \* position of the running call
    i,              \* index of the for-loop over self.nodes
    sample_vals,    \* the dictionary under construction (variable -> bool)
    weight,         \* the running weight (likelihood weighting)
    samples,        \* the list built by generate_samples
    keeps,          \* what generate_samples(n, evidence) returns
    query_vals,     \* the query dictionary handed to get_prob
    result,         \* what get_prob returned (or the error it raised)
    passes,         \* history: number of for-loop passes started in this call
    resolved,       \* history: variable -> number of assignments in this call
    drawn_with      \* history: variable -> parent values used at the last one

vars == <<nodes, kind, evidence_vals, n, pc, i, sample_vals, weight, samples,
          keeps, query_vals, result, passes, resolved, drawn_with>>

-----------------------------------------------------------------------------
(* Bounds of the model *)

\* largest evidence dictionary drawn in Init
MaxEvidence == 2
\* largest n handed to generate_samples / get_prob
MaxSamples == 2
\* the pass counter and the per-variable counters stop counting here
MaxPasses == 5

-----------------------------------------------------------------------------
(* Exact rational arithmetic *)

RECURSIVE GCD(_, _)
GCD(a, b) == IF b = 0 THEN a ELSE GCD(b, a % b)

Norm(q) == IF q[1] = 0 THEN <<0, 1>>
           ELSE LET g == GCD(q[1], q[2]) IN <<q[1] \div g, q[2] \div g>>

Rat(a, b) == Norm(<<a, b>>)
One == <<1, 1>>
Zero == <<0, 1>>
RMul(p, q) == Norm(<<p[1] * q[1], p[2] * q[2]>>)
RAdd(p, q) == Norm(<<p[1] * q[2] + q[1] * p[2], p[2] * q[2]>>)
RSub(p, q) == Norm(<<p[1] * q[2] - q[1] * p[2], p[2] * q[2]>>)
RDiv(p, q) == Norm(<<p[1] * q[2], p[2] * q[1]>>)
RLess(p, q) == p[1] * q[2] < q[1] * p[2]
RLeq(p, q) == p[1] * q[2] <= q[1] * p[2]

-----------------------------------------------------------------------------
(* Dictionaries *)

EmptyDict == [x \in {} |-> TRUE]
Put(d, k, v) == [x \in (DOMAIN d) \cup {k} |-> IF x = k THEN v ELSE d[x]]
Cap(c) == IF c < MaxPasses THEN c + 1 ELSE c
Bump(d, k) == Put(d, k, IF k \in DOMAIN d THEN Cap(d[k]) ELSE 1)

-----------------------------------------------------------------------------
(* BooleanVariableNode *)

BooleanVariableNode(var, parent_vars, cpt_entries) ==
    [target |-> var, parents |-> parent_vars, cpt |-> cpt_entries]

get_parents(node) == node.parents
get_var(node) == node.target
get_prob_true(node, parent_vals) == node.cpt[parent_vals]
get_prob_false(node, parent_vals) == RSub(One, get_prob_true(node, parent_vals))

\* CPT shorthands: no parent, one parent, two parents
Cpt0(p) == (<<>> :> p)
Cpt1(pT, pF) == (<<TRUE>> :> pT) @@ (<<FALSE>> :> pF)
Cpt2(pTT, pTF, pFT, pFF) ==
    (<<TRUE, TRUE>> :> pTT) @@ (<<TRUE, FALSE>> :> pTF) @@
    (<<FALSE, TRUE>> :> pFT) @@ (<<FALSE, FALSE>> :> pFF)

-----------------------------------------------------------------------------
(* Networks handed to the samplers *)

\* the network of the __main__ block, in the order it is written
FEVER_NODES == <<
    BooleanVariableNode("E", <<>>, Cpt0(Rat(1, 4))),
    BooleanVariableNode("F", <<"E">>, Cpt1(Rat(1, 2), Rat(1, 10))),
    BooleanVariableNode("A", <<"F">>, Cpt1(Rat(7, 8), Rat(1, 4))),
    BooleanVariableNode("T", <<"F">>, Cpt1(Rat(3, 4), Rat(1, 16))) >>

\* a chain whose inner entries are all 0 or 1: B copies A, C negates B
CHAIN_NODES == <<
    BooleanVariableNode("A", <<>>, Cpt0(Rat(1, 2))),
    BooleanVariableNode("B", <<"A">>, Cpt1(One, Zero)),
    BooleanVariableNode("C", <<"B">>, Cpt1(Zero, One)) >>

\* two roots and a child whose CPT is not symmetric in its two parents
COLLIDER_NODES == <<
    BooleanVariableNode("A", <<>>, Cpt0(Rat(1, 2))),
    BooleanVariableNode("B", <<>>, Cpt0(Rat(1, 4))),
    BooleanVariableNode("C", <<"A", "B">>, Cpt2(One, Zero, Rat(1, 2), Zero)) >>

\* a root that is never true and a root that is always true
EXTREME_NODES == <<
    BooleanVariableNode("A", <<>>, Cpt0(Zero)),
    BooleanVariableNode("B", <<>>, Cpt0(One)),
    BooleanVariableNode("C", <<"A">>, Cpt1(Rat(1, 2), Rat(1, 4))) >>

\* malformed: A and B depend on each other
CYCLE_NODES == <<
    BooleanVariableNode("A", <<"B">>, Cpt1(Rat(1, 2), Rat(1, 4))),
    BooleanVariableNode("B", <<"A">>, Cpt1(Rat(1, 2), Rat(1, 4))),
    BooleanVariableNode("C", <<>>, Cpt0(Rat(1, 2))) >>

\* malformed: A is its own parent
SELF_NODES == <<
    BooleanVariableNode("A", <<"A">>, Cpt1(Rat(1, 2), Rat(1, 4))),
    BooleanVariableNode("B", <<>>, Cpt0(Rat(1, 2))),
    BooleanVariableNode("C", <<"B">>, Cpt1(Rat(1, 2), Rat(1, 4))) >>

\* malformed: the parent U of A is no node of the network
UNKNOWN_NODES == <<
    BooleanVariableNode("A", <<"U">>, Cpt1(Rat(1, 2), Rat(1, 4))),
    BooleanVariableNode("B", <<"A">>, Cpt1(Rat(1, 2), Rat(1, 4))),
    BooleanVariableNode("C", <<>>, Cpt0(Rat(1, 2))) >>

\* malformed: the CPT of B has no entry for A = FALSE
PARTIAL_NODES == <<
    BooleanVariableNode("A", <<>>, Cpt0(Rat(1, 2))),
    BooleanVariableNode("B", <<"A">>, (<<TRUE>> :> Rat(1, 2))) >>

\* every order of a node list
Orders(ns) ==
    LET idx == 1..Len(ns)
        perms == {p \in [idx -> idx] : \A a, b \in idx : a # b => p[a] # p[b]}
    IN {[k \in idx |-> ns[p[k]]] : p \in perms}

BaseNetworks == {FEVER_NODES, CHAIN_NODES, COLLIDER_NODES, EXTREME_NODES,
                 CYCLE_NODES, SELF_NODES, UNKNOWN_NODES, PARTIAL_NODES}

Networks == UNION {Orders(ns) : ns \in BaseNetworks}

Names(ns) == {get_var(ns[k]) : k \in 1..Len(ns)}

\* dictionaries variable -> bool over the given variables, at most max entries
Dicts(S, max) ==
    UNION {[D -> BOOLEAN] : D \in {D \in SUBSET S : Cardinality(D) <= max}}

\* evidence may name the variables of the network and one variable outside it
Evidences(ns) == Dicts(Names(ns) \cup {"U"}, MaxEvidence)

-----------------------------------------------------------------------------
(* Well-formedness of a network (data model of the samplers) *)

UniqueNames(ns) == \A a, b \in 1..Len(ns) : a # b => get_var(ns[a]) # get_var(ns[b])

ParentVars(node) == {get_parents(node)[k] : k \in 1..Len(get_parents(node))}

KnownParents(ns) == \A k \in 1..Len(ns) : ParentVars(ns[k]) \subseteq Names(ns)

\* the variables reachable by resolving, again and again, a node whose
\* parents are all resolved
RECURSIVE Resolvable(_, _)
Resolvable(ns, S) ==
    LET T == S \cup {get_var(ns[k]) : k \in {k \in 1..Len(ns) : ParentVars(ns[k]) \subseteq S}}
    IN IF T = S THEN S ELSE Resolvable(ns, T)

Acyclic(ns) == Resolvable(ns, {}) = Names(ns)

BoolTuples(len) == [1..len -> BOOLEAN]

CompleteCpt(node) ==
    /\ DOMAIN node.cpt = BoolTuples(Len(get_parents(node)))
    /\ \A key \in DOMAIN node.cpt : RLeq(Zero, node.cpt[key]) /\ RLeq(node.cpt[key], One)

WellFormed(ns) ==
    /\ UniqueNames(ns)
    /\ KnownParents(ns)
    /\ Acyclic(ns)
    /\ \A k \in 1..Len(ns) : CompleteCpt(ns[k])

\* every CPT entry lies strictly between 0 and 1
InteriorCpt(ns) ==
    \A k \in 1..Len(ns) : \A key \in DOMAIN ns[k].cpt :
        RLess(Zero, ns[k].cpt[key]) /\ RLess(ns[k].cpt[key], One)

\* every node comes after all of its parents
DependencyOrder(ns) ==
    \A k \in 1..Len(ns) : ParentVars(ns[k]) \subseteq {get_var(ns[j]) : j \in 1..(k - 1)}

-----------------------------------------------------------------------------
(* generate_sample: the resolution loop of SimpleSampler and of            *)
(* LikelihoodWeightingSampler                                              *)

\* mutant: the while test written with <=
LoopCondInclusive(d, ns) == Cardinality(DOMAIN d) <= Len(ns)

\* mutant: the while test stops one entry short
LoopCondOffByOne(d, ns) == Cardinality(DOMAIN d) < Len(ns) - 1

\* "while len(sample_vals) < len(self.nodes)"
LoopCond(d, ns) == Cardinality(DOMAIN d) < Len(ns)

\* A key of sample_vals is a variable name (a str).  BooleanVariableNode
\* defines neither __eq__ nor __hash__, so a node object equals no str.
NodeEqualsKey(node, key) == FALSE

\* "node not in sample_vals" tests the node object against the keys
NodeInDict(node, d) == \E key \in DOMAIN d : NodeEqualsKey(node, key)

\* "all([ p in sample_vals for p in parent_vars ])"
AllParentsIn(parent_vars, d) ==
    \A k \in 1..Len(parent_vars) : parent_vars[k] \in DOMAIN d

\* "tuple([ sample_vals[par] for par in parent_vars ])"
ParentVals(parent_vars, d) == [k \in 1..Len(parent_vars) |-> d[parent_vars[k]]]

\* the values "random.random() < prob_true" can take
Draw(prob_true) ==
    {val \in BOOLEAN : IF val THEN RLess(Zero, prob_true) ELSE RLess(prob_true, One)}

\* mutant: the forced value is the opposite of the evidence value
EvidenceValueNegated(ev, var) == ~ev[var]

\* "val = evidence_vals[var]"
EvidenceValue(ev, var) == ev[var]

\* mutant: the two branches of the conditional expression swapped
LikelihoodSwapped(node, parent_vals, val) ==
    IF val THEN get_prob_false(node, parent_vals) ELSE get_prob_true(node, parent_vals)

\* "p = node.get_prob_true(parent_vals) if val else node.get_prob_false(parent_vals)"
Likelihood(node, parent_vals, val) ==
    IF val THEN get_prob_true(node, parent_vals) ELSE get_prob_false(node, parent_vals)

\* "weight *= p".  A call on a well-formed network ends within Len(nodes)
\* passes; a call that is still running in pass MaxPasses never ends, and
\* from there on its weight is no longer followed (it would shrink forever).
Times(w, p) == IF passes < MaxPasses THEN RMul(w, p) ELSE w

\* the for-loop moves to the next node, or the pass ends and the while
\* condition is tested again
Advance ==
    IF i < Len(nodes) THEN i' = i + 1 /\ pc' = "for"
    ELSE i' = i /\ pc' = "while"

\* history of an assignment sample_vals[var] = ... made with parent_vals
Record(var, parent_vals) ==
    /\ resolved' = Bump(resolved, var)
    /\ drawn_with' = Put(drawn_with, var, parent_vals)

NoRecord == UNCHANGED <<resolved, drawn_with>>

Inputs == <<nodes, kind, evidence_vals, n>>
Outer == <<samples, keeps, query_vals, result>>

\* the while test of generate_sample; falling out of it returns
WhileTest ==
    /\ pc = "while"
    /\ IF LoopCond(sample_vals, nodes)
       THEN pc' = "for" /\ i' = 1 /\ passes' = Cap(passes)
       ELSE pc' = "done" /\ UNCHANGED <<i, passes>>
    /\ UNCHANGED <<Inputs, Outer, sample_vals, weight, resolved, drawn_with>>

\* one iteration of the for-loop of SimpleSampler.generate_sample
SimpleVisit ==
    /\ pc = "for"
    /\ kind \in {"simple", "rejection"}
    /\ LET node == nodes[i]
           var == get_var(node)
           parent_vars == get_parents(node)
       IN IF ~NodeInDict(node, sample_vals) /\ AllParentsIn(parent_vars, sample_vals)
          THEN LET parent_vals == ParentVals(parent_vars, sample_vals)
               IN IF parent_vals \notin DOMAIN node.cpt
                  THEN /\ pc' = "KeyError"
                       /\ UNCHANGED <<i, sample_vals>>
                       /\ NoRecord
                  ELSE /\ \E val \in Draw(get_prob_true(node, parent_vals)) :
                              sample_vals' = Put(sample_vals, var, val)
                       /\ Record(var, parent_vals)
                       /\ Advance
          ELSE /\ UNCHANGED sample_vals
               /\ NoRecord
               /\ Advance
    /\ UNCHANGED <<Inputs, Outer, weight, passes>>

\* one iteration of the for-loop of LikelihoodWeightingSampler.generate_sample
WeightedVisit ==
    /\ pc = "for"
    /\ kind = "likelihood"
    /\ LET node == nodes[i]
           var == get_var(node)
           parent_vars == get_parents(node)
       IN IF ~NodeInDict(node, sample_vals) /\ AllParentsIn(parent_vars, sample_vals)
          THEN LET parent_vals == ParentVals(parent_vars, sample_vals)
               IN IF parent_vals \notin DOMAIN node.cpt
                  THEN /\ pc' = "KeyError"
                       /\ UNCHANGED <<i, sample_vals, weight>>
                       /\ NoRecord
                  ELSE /\ IF var \in DOMAIN evidence_vals
                          THEN LET val == EvidenceValue(evidence_vals, var)
                               IN /\ sample_vals' = Put(sample_vals, var, val)
                                  /\ weight' = Times(weight, Likelihood(node, parent_vals, val))
                          ELSE /\ \E val \in Draw(get_prob_true(node, parent_vals)) :
                                      sample_vals' = Put(sample_vals, var, val)
                               /\ UNCHANGED weight
                       /\ Record(var, parent_vals)
                       /\ Advance
          ELSE /\ UNCHANGED <<sample_vals, weight>>
               /\ NoRecord
               /\ Advance
    /\ UNCHANGED <<Inputs, Outer, passes>>

\* one call of generate_sample on a network, with its evidence
InitSample ==
    /\ nodes \in Networks
    /\ kind \in {"simple", "likelihood"}
    /\ evidence_vals \in (IF kind = "likelihood" THEN Evidences(nodes) ELSE {EmptyDict})
    /\ n = 1
    /\ pc = "while"
    /\ i = 1
    /\ sample_vals = EmptyDict
    /\ weight = One
    /\ samples = <<>>
    /\ keeps = <<>>
    /\ query_vals = EmptyDict
    /\ result = Zero
    /\ passes = 0
    /\ resolved = EmptyDict
    /\ drawn_with = EmptyDict

NextSample == WhileTest \/ SimpleVisit \/ WeightedVisit

SpecSample == InitSample /\ [][NextSample]_vars

-----------------------------------------------------------------------------
(* generate_samples and get_prob of RejectionSampler and of                *)
(* LikelihoodWeightingSampler                                              *)

\* a smaller network with every CPT entry strictly between 0 and 1
PAIR_NODES == <<
    BooleanVariableNode("A", <<>>, Cpt0(Rat(1, 2))),
    BooleanVariableNode("B", <<"A">>, Cpt1(Rat(3, 4), Rat(1, 4))) >>

EstNetworks == Orders(PAIR_NODES) \cup Orders(EXTREME_NODES)

\* largest query dictionary handed to get_prob
MaxQuery == 2

Queries(ns) == Dicts(Names(ns) \cup {"U"}, MaxQuery)

\* mutant: an evidence variable the sample does not hold counts as agreeing
AgreesLenient(sample, ev) ==
    \A var \in DOMAIN ev : var \in DOMAIN sample => sample[var] = ev[var]

\* "all(sample.get(var, None) == val for var, val in evidence_vals.items())"
Agrees(sample, ev) ==
    \A var \in DOMAIN ev : var \in DOMAIN sample /\ sample[var] = ev[var]

\* mutant: a query variable the sample does not hold counts as matching
MatchesLenient(dictionary, query) ==
    \A k \in DOMAIN query : k \in DOMAIN dictionary => dictionary[k] = query[k]

\* "all((k in dictionary and dictionary[k] == v) for k,v in query_vals.items())"
Matches(dictionary, query) ==
    \A k \in DOMAIN query : k \in DOMAIN dictionary /\ dictionary[k] = query[k]

\* RejectionSampler.generate_samples: the loop over unfiltered
RECURSIVE Filter(_, _)
Filter(unfiltered, ev) ==
    IF unfiltered = <<>> THEN <<>>
    ELSE LET sample == Head(unfiltered)
             rest == Filter(Tail(unfiltered), ev)
         IN IF Agrees(sample, ev) THEN <<sample>> \o rest ELSE rest

\* RejectionSampler.get_prob: the counting loop
RECURSIVE CountMatches(_, _)
CountMatches(ss, query) ==
    IF ss = <<>> THEN 0
    ELSE (IF Matches(Head(ss), query) THEN 1 ELSE 0) + CountMatches(Tail(ss), query)

\* LikelihoodWeightingSampler.get_prob: count2, the sum of all weights
RECURSIVE TotalWeight(_)
TotalWeight(ss) ==
    IF ss = <<>> THEN Zero ELSE RAdd(Head(ss)[2], TotalWeight(Tail(ss)))

\* mutant: "count += 1" for a matching sample instead of "count += toople[1]"
RECURSIVE MatchWeightCounting(_, _)
MatchWeightCounting(ss, query) ==
    IF ss = <<>> THEN Zero
    ELSE LET rest == MatchWeightCounting(Tail(ss), query)
         IN IF Matches(Head(ss)[1], query) THEN RAdd(One, rest) ELSE rest

\* LikelihoodWeightingSampler.get_prob: count, the sum of the matching weights
RECURSIVE MatchWeight(_, _)
MatchWeight(ss, query) ==
    IF ss = <<>> THEN Zero
    ELSE LET rest == MatchWeight(Tail(ss), query)
         IN IF Matches(Head(ss)[1], query) THEN RAdd(Head(ss)[2], rest) ELSE rest

Sampling == <<i, sample_vals, weight, passes, resolved, drawn_with>>

\* "for x in range(n)": the next call of generate_sample starts
GenNext ==
    /\ pc = "gen"
    /\ Len(samples) < n
    /\ pc' = "while"
    /\ i' = 1
    /\ sample_vals' = EmptyDict
    /\ weight' = One
    /\ passes' = 0
    /\ resolved' = EmptyDict
    /\ drawn_with' = EmptyDict
    /\ UNCHANGED <<Inputs, Outer>>

\* generate_sample returns into the list comprehension
SampleReturn ==
    /\ pc = "done"
    /\ samples' = Append(samples, IF kind = "likelihood" THEN <<sample_vals, weight>>
                                  ELSE sample_vals)
    /\ pc' = "gen"
    /\ UNCHANGED <<Inputs, Sampling, keeps, query_vals, result>>

\* generate_samples(n, evidence_vals) returns
GenReturn ==
    /\ pc = "gen"
    /\ Len(samples) = n
    /\ keeps' = IF kind = "rejection" THEN Filter(samples, evidence_vals) ELSE samples
    /\ pc' = "prob"
    /\ UNCHANGED <<Inputs, Sampling, samples, query_vals, result>>

\* RejectionSampler.get_prob(query_vals, evidence_vals, n) after its samples
RejectionGetProb ==
    /\ pc = "prob"
    /\ kind = "rejection"
    /\ \E query \in Queries(nodes) :
          /\ query_vals' = query
          /\ IF Len(keeps) = 0
             THEN pc' = "ZeroDivisionError" /\ UNCHANGED result
             ELSE pc' = "returned" /\ result' = Rat(CountMatches(keeps, query), Len(keeps))
    /\ UNCHANGED <<Inputs, Sampling, samples, keeps>>

\* LikelihoodWeightingSampler.get_prob(query_vals, evidence_vals, n) after its samples
LikelihoodGetProb ==
    /\ pc = "prob"
    /\ kind = "likelihood"
    /\ \E query \in Queries(nodes) :
          /\ query_vals' = query
          /\ LET count == MatchWeight(keeps, query)
                 count2 == TotalWeight(keeps)
             IN IF count2 = Zero
                THEN pc' = "ZeroDivisionError" /\ UNCHANGED result
                ELSE pc' = "returned" /\ result' = RDiv(count, count2)
    /\ UNCHANGED <<Inputs, Sampling, samples, keeps>>

\* one call of get_prob(query_vals, evidence_vals, n)
InitEst ==
    /\ nodes \in EstNetworks
    /\ kind \in {"rejection", "likelihood"}
    /\ evidence_vals \in Evidences(nodes)
    /\ n \in 0..MaxSamples
    /\ pc = "gen"
    /\ i = 1
    /\ sample_vals = EmptyDict
    /\ weight = One
    /\ samples = <<>>
    /\ keeps = <<>>
    /\ query_vals = EmptyDict
    /\ result = Zero
    /\ passes = 0
    /\ resolved = EmptyDict
    /\ drawn_with = EmptyDict

NextEst ==
    \/ GenNext
    \/ WhileTest
    \/ SimpleVisit
    \/ WeightedVisit
    \/ SampleReturn
    \/ GenReturn
    \/ RejectionGetProb
    \/ LikelihoodGetProb

SpecEst == InitEst /\ [][NextEst]_vars

-----------------------------------------------------------------------------
(* Properties of one call of generate_sample (SpecSample) *)

\* the CPT entry of a node at the parent values a sample holds
EntryAt(node, sample) == node.cpt[ParentVals(get_parents(node), sample)]

\* the factor of one evidence variable: P(var = val | parents as in sample)
FactorAt(node, sample, val) ==
    IF val THEN EntryAt(node, sample) ELSE RSub(One, EntryAt(node, sample))

\* the product of the factors of the evidence variables among ns[1..k]
RECURSIVE EvidenceProduct(_, _, _, _)
EvidenceProduct(ns, sample, ev, k) ==
    IF k = 0 THEN One
    ELSE LET var == get_var(ns[k])
             rest == EvidenceProduct(ns, sample, ev, k - 1)
         IN IF var \in DOMAIN ev THEN RMul(rest, FactorAt(ns[k], sample, ev[var]))
            ELSE rest

Complete(ns, sample) == DOMAIN sample = Names(ns)

\* C1: on a well-formed network in any node order, one call of
\* generate_sample assigns every node exactly once: no variable is assigned
\* a second time, and at the return every node has been assigned.
C1_EachNodeResolvedOnce ==
    WellFormed(nodes) =>
        /\ \A var \in DOMAIN resolved : resolved[var] = 1
        /\ pc = "done" => DOMAIN resolved = Names(nodes)

\* C2: on a well-formed network in any node order, with evidence over the
\* network's variables, the weight returned by the likelihood-weighting
\* generate_sample is the product, one factor per evidence variable, of
\* P(variable = forced value | parent values of the returned sample).
C2_WeightIsEvidenceProduct ==
    (/\ pc = "done"
     /\ kind = "likelihood"
     /\ WellFormed(nodes)
     /\ DOMAIN evidence_vals \subseteq Names(nodes))
        => weight = EvidenceProduct(nodes, sample_vals, evidence_vals, Len(nodes))

\* C3: on a well-formed network in any node order, generate_sample starts at
\* most Len(nodes) passes of its for-loop, the while test that follows pass
\* number Len(nodes) ends the loop, no lookup fails, and the sample returned
\* has one entry per node.
C3_CompleteWithinLenPasses ==
    WellFormed(nodes) =>
        /\ passes <= Len(nodes)
        /\ pc # "KeyError"
        /\ (pc = "while" /\ passes = Len(nodes)) => ~LoopCond(sample_vals, nodes)
        /\ pc = "done" => Complete(nodes, sample_vals)

C3_Witness ==
    /\ pc = "done"
    /\ WellFormed(nodes)
    /\ ~DependencyOrder(nodes)
    /\ Len(nodes) >= 3
    /\ passes = Len(nodes)
    /\ Complete(nodes, sample_vals)

\* C4: in the sample forward sampling returns for a well-formed network in
\* any node order, every node's value is a possible draw from its CPT entry
\* at the parent values the returned sample holds: FALSE if the entry is 0,
\* TRUE if the entry is 1.
C4_ValuesFitReturnedParents ==
    (pc = "done" /\ kind = "simple" /\ WellFormed(nodes)) =>
        \A k \in 1..Len(nodes) :
            sample_vals[get_var(nodes[k])] \in Draw(EntryAt(nodes[k], sample_vals))

\* the variables no sequence of resolutions reaches: those on a cycle,
\* those with an unknown parent, and their descendants
Stuck(ns) == Names(ns) \ Resolvable(ns, {})

Malformed(ns) ==
    /\ UniqueNames(ns)
    /\ \A k \in 1..Len(ns) : CompleteCpt(ns[k])
    /\ ~Acyclic(ns) \/ ~KnownParents(ns)

\* C9: on a network with a dependency cycle, or with a parent that is no
\* node of the network, generate_sample never returns and never raises: the
\* loop always has a next step, and the variables on the cycle (or depending
\* on the unknown variable) are never assigned.
C9_MalformedNeverReturns ==
    Malformed(nodes) =>
        /\ pc \in {"while", "for"}
        /\ ENABLED NextSample
        /\ Stuck(nodes) # {}
        /\ Stuck(nodes) \cap DOMAIN sample_vals = {}

C9_Witness ==
    /\ Malformed(nodes)
    /\ ~Acyclic(nodes)
    /\ KnownParents(nodes)
    /\ passes = MaxPasses
    /\ pc = "while"
    /\ DOMAIN sample_vals = Names(nodes) \ Stuck(nodes)
    /\ DOMAIN sample_vals # {}

\* C10: when every node comes after all of its parents (as in FEVER_NODES),
\* generate_sample of both samplers makes exactly one pass, assigns every
\* node exactly once from parent values that are the returned ones, and the
\* likelihood-weighting weight holds exactly one factor per evidence variable.
C10_DependencyOrderOnePass ==
    (WellFormed(nodes) /\ DependencyOrder(nodes)) =>
        /\ passes <= 1
        /\ \A var \in DOMAIN resolved : resolved[var] = 1
        /\ pc = "done" =>
            /\ passes = 1
            /\ DOMAIN resolved = Names(nodes)
            /\ Complete(nodes, sample_vals)
            /\ \A k \in 1..Len(nodes) :
                   drawn_with[get_var(nodes[k])] = ParentVals(get_parents(nodes[k]), sample_vals)
            /\ weight = EvidenceProduct(nodes, sample_vals, evidence_vals, Len(nodes))

C10_Witness ==
    /\ pc = "done"
    /\ nodes = FEVER_NODES
    /\ kind = "likelihood"
    /\ evidence_vals = [var \in {"A", "T"} |-> TRUE]
    /\ passes = 1
    /\ weight # One

-----------------------------------------------------------------------------
(* Properties of generate_samples and get_prob (SpecEst) *)

\* generate_samples(n, evidence_vals) has returned its list (keeps)
GenReturned == pc \in {"prob", "returned", "ZeroDivisionError"}

\* a sample holds, for every entry of the dictionary d, exactly that value
Consistent(sample, d) ==
    \A var \in DOMAIN d : var \in DOMAIN sample /\ sample[var] = d[var]

\* positions of the samples consistent with d
ConsistentAt(ss, d) == {k \in 1..Len(ss) : Consistent(ss[k], d)}

\* sum of the weights of the first k weighted samples consistent with d
RECURSIVE WeightSum(_, _, _)
WeightSum(ss, d, k) ==
    IF k = 0 THEN Zero
    ELSE IF Consistent(ss[k][1], d) THEN RAdd(WeightSum(ss, d, k - 1), ss[k][2])
         ELSE WeightSum(ss, d, k - 1)

\* C5: LikelihoodWeightingSampler.generate_samples(n, evidence) returns
\* exactly n pairs; every sample holds the forced value for each evidence
\* variable that is a node of the network; and every weight is strictly
\* positive when all CPT entries lie strictly between 0 and 1.
C5_EvidenceForcedAllKept ==
    (GenReturned /\ kind = "likelihood") =>
        /\ Len(keeps) = n
        /\ \A k \in 1..Len(keeps) :
              /\ \A var \in DOMAIN evidence_vals \cap Names(nodes) :
                    var \in DOMAIN keeps[k][1] /\ keeps[k][1][var] = evidence_vals[var]
              /\ InteriorCpt(nodes) => RLess(Zero, keeps[k][2])

C5_Witness ==
    /\ pc = "prob"
    /\ kind = "likelihood"
    /\ InteriorCpt(nodes)
    /\ ~DependencyOrder(nodes)
    /\ n >= 2
    /\ Len(keeps) = n
    /\ DOMAIN evidence_vals = {"B", "U"}
    /\ keeps[1][2] # One

\* C6: every sample RejectionSampler.generate_samples(n, evidence) returns
\* agrees with every evidence entry, every one of the n forward samples that
\* agrees with all evidence entries is returned (in order), and at most n
\* samples are returned.
C6_RejectionKeepsExactlyAgreeing ==
    (GenReturned /\ kind = "rejection") =>
        /\ Len(samples) = n
        /\ Len(keeps) <= n
        /\ \A k \in 1..Len(keeps) : Consistent(keeps[k], evidence_vals)
        /\ Len(keeps) = Cardinality(ConsistentAt(samples, evidence_vals))
        /\ \E f \in [1..Len(keeps) -> 1..Len(samples)] :
              /\ \A k \in 1..Len(keeps) : keeps[k] = samples[f[k]]
              /\ \A j, k \in 1..Len(keeps) : j < k => f[j] < f[k]

C6_Witness ==
    /\ pc = "prob"
    /\ kind = "rejection"
    /\ evidence_vals # EmptyDict
    /\ Len(keeps) > 0
    /\ Len(keeps) < n

\* C7: RejectionSampler.get_prob returns matchCount / survivingCount over the
\* n forward samples (surviving: agrees with the evidence; match: surviving
\* and agrees with every query entry); with no surviving sample it raises
\* ZeroDivisionError and returns nothing.
C7_RejectionRatioOrDivisionError ==
    (kind = "rejection" /\ pc \in {"returned", "ZeroDivisionError"}) =>
        LET surviving == ConsistentAt(samples, evidence_vals)
            matching == surviving \cap ConsistentAt(samples, query_vals)
        IN /\ Len(samples) = n
           /\ pc = "ZeroDivisionError" <=> surviving = {}
           /\ pc = "returned" =>
                 result = Rat(Cardinality(matching), Cardinality(surviving))

C7_Witness ==
    /\ kind = "rejection"
    /\ pc = "ZeroDivisionError"
    /\ n >= 2
    /\ Len(samples) = n
    /\ DOMAIN evidence_vals \subseteq Names(nodes)

\* C8: on a well-formed network LikelihoodWeightingSampler.get_prob returns
\* (sum of the weights of the samples agreeing with every query entry) /
\* (sum of all n weights), a value in [0, 1]; it raises ZeroDivisionError
\* exactly when the sum of all weights is 0, which does not happen for
\* n >= 1 when every CPT entry lies strictly between 0 and 1.
C8_WeightedRatioOrDivisionError ==
    (kind = "likelihood" /\ WellFormed(nodes) /\ pc \in {"returned", "ZeroDivisionError"}) =>
        LET total == WeightSum(keeps, EmptyDict, Len(keeps))
            match == WeightSum(keeps, query_vals, Len(keeps))
        IN /\ Len(keeps) = n
           /\ pc = "ZeroDivisionError" <=> total = Zero
           /\ pc = "returned" =>
                 /\ result = RDiv(match, total)
                 /\ RLeq(Zero, result)
                 /\ RLeq(result, One)
           /\ (n >= 1 /\ InteriorCpt(nodes)) => pc = "returned"

C8_Witness ==
    /\ kind = "likelihood"
    /\ pc = "returned"
    /\ WellFormed(nodes)
    /\ n >= 2
    /\ keeps[1][2] # keeps[2][2]
    /\ evidence_vals # EmptyDict
    /\ RLess(Zero, result)
    /\ RLess(result, One)

====
